---- MODULE Spec2Model ----
(***************************************************************************)
(* Model of the survivor-pool optimizer (src/optimizer/hungarian_optimizer *)
(* .py): SurvivorOptimizer over a probability table, its cost matrix, the  *)
(* assignment solve, the decoding of the path and the candidate ranking;   *)
(* and of the pool-size adjustment (src/optimizer/pool_calculator.py):     *)
(* PoolCalculator, its expected values, composite score and strategy text; *)
(* and of the file cache (src/utils/cache_manager.py): CacheManager over   *)
(* the files of its directory and the clock. ParallelSpec runs the forced  *)
(* solves of get_top_picks as processes.                                   *)
(*                                                                         *)
(* Number representation (the code works on floats):                       *)
(*   - a win probability or pick percentage is an integer in thousandths   *)
(*     (800 is 0.8);                                                       *)
(*   - a cost is an integer in units of 1e-5 (22314 is 0.22314);           *)
(*   - an aggregate probability is an integer in millionths;               *)
(*   - an expected value is an integer in thousandths, rounded down;       *)
(*   - a composite score is an integer in units of 1e-7.                   *)
(***************************************************************************)
EXTENDS Integers, Sequences, FiniteSets, TLC

(* ------------------------------ bounds -------------------------------- *)

\* Number of team names the probability table may mention.
NumTeams == 3

\* Largest n_picks passed to get_top_picks.
MaxPicks == 2

\* Number of times the clock advances by half the expiry of the cache.
MaxTicks == 2

(* ------------------------- program constants -------------------------- *)

\* config.TOTAL_WEEKS
TOTAL_WEEKS == 18

\* 999: the cost of a (team, week) cell without a record, in 1e-5.
MISSING_COST == 99900000

\* -1000: the cost given to the forced team in the first week, in 1e-5.
FORCED_COST == -100000000

\* 1000: the cost given to every other team in the first week, in 1e-5.
BLOCKED_COST == 100000000

\* 100: a decoded step with a larger cost is skipped, in 1e-5.
SKIP_THRESHOLD == 10000000

\* 1.0 as a cost, in 1e-5 (the "1" of "1 - cost if cost < 1").
ONE_COST == 100000

\* 0.001: the clamp under the logarithm, in thousandths.
EPSILON == 1

\* 0.01: the win probability of a step whose cost is >= 1, in thousandths.
FALLBACK_WIN == 10

\* 0.05: the default pick percentage, in thousandths.
DEFAULT_PICK == 50

\* 1.0 as an aggregate probability, in millionths (exp(0)).
ONE_PROB == 1000000

\* config.CACHE_EXPIRY_HOURS
CACHE_EXPIRY_HOURS == 6

(* ------------------------------ inputs -------------------------------- *)

\* Team names in sorted (alphabetical) order.
TeamOrder == <<"A", "B", "C", "D", "E">>

Teams == {TeamOrder[i] : i \in 1..NumTeams}

Rank(t) == CHOOSE i \in 1..Len(TeamOrder) : TeamOrder[i] = t

\* force_team = None (or the empty string: `if force_team:` treats both alike).
NoForce == ""

\* A team name that occurs in no table.
Stranger == TeamOrder[NumTeams + 1]

\* The weeks the general tables cover: the last two weeks of the season.
SeasonWeeks == {TOTAL_WEEKS - 1, TOTAL_WEEKS}

\* The weeks of the worked example of the specification.
ExampleWeeks == {7, 8}

\* A ProbabilityRecord: one row of the DataFrame.
Row(t, w, p, q) == [team |-> t, week |-> w, win_probability |-> p, pick_pct |-> q]

\* What a (team, week) cell may hold: no record (a bye), or a record
\* <<win probability, pick percentage>>.
NoRecord == <<>>

Zero == <<0, 50>>

Low == <<600, 100>>

High == <<900, 400>>

\* The rows of a general table: what one team has in the two season weeks.
RowChoices ==
    { <<High, Low>>, <<Low, High>>, <<High, High>>,
      <<NoRecord, High>>, <<Low, NoRecord>>, <<Zero, High>> }

\* The DataFrame holding, for every team, the records of its row.
TableOf(f) ==
    {Row(t, TOTAL_WEEKS - 2 + k, f[t][k][1], f[t][k][2]) :
        <<t, k>> \in {c \in Teams \X {1, 2} : f[c[1]][c[2]] # NoRecord}}

\* The row of a team that is already used. The optimizer reads of a used team
\* only that it occurs in the table, never its records, so one row stands for
\* all.
UsedRow == <<High, High>>

\* The general tables for a set of used teams.
GeneralTables(used) ==
    {TableOf(f) : f \in {g \in [Teams -> RowChoices] : \A t \in used : g[t] = UsedRow}}

ExampleTable ==
    { Row("A", 7, 800, 50), Row("A", 8, 700, 50),
      Row("B", 7, 600, 50), Row("B", 8, 900, 50),
      Row("C", 7, 700, 50), Row("C", 8, 600, 50) }

\* The last three weeks of the season.
LongWeeks == (TOTAL_WEEKS - 2) .. TOTAL_WEEKS

\* A complete table over three weeks, with win probabilities 1.0, 0.01 and 0.
LongTable ==
    { Row("A", 16, 1000, 50), Row("A", 17, 1000, 50), Row("A", 18, 1000, 50),
      Row("B", 16, 1000, 50), Row("B", 17, 0, 50),    Row("B", 18, 10, 50),
      Row("C", 16, 1000, 50), Row("C", 17, 10, 50),   Row("C", 18, 1000, 50) }

\* Rules by which the assignment solver breaks ties between optimal
\* assignments; the solver is deterministic, the rule is fixed per run.
TieRules == {"first", "last"}

(* ------------------------------- state -------------------------------- *)

VARIABLES
    data,             \* self.data: the probability table, a set of rows
    used_teams,       \* self.used_teams
    available_teams,  \* self.available_teams: sorted list
    tie,              \* the solver's tie-breaking rule
    call,             \* the last call made on the optimizer
    result,           \* what that call returned or raised
    first,            \* the first call made on the optimizer, what it gave, and
                      \* whether a different call was made since
    pool_size,        \* self.pool_size of the PoolCalculator (0: none built)
    top_picks,        \* the list of picks handed to the PoolCalculator
    pool_call,        \* the last method called on the PoolCalculator
    pool_result,      \* what that method returned
    cache_files,      \* the files of self.cache_dir: file name -> content
    clock,            \* datetime.now(), in hours
    cache_call,       \* the last call made on the CacheManager
    cache_result,     \* what that call returned
    last_set,         \* the last set() if it returned True and no set() or
                      \* clear() was called since
    cleared,          \* the keys cleared and not successfully set since
    was_set,          \* the keys set() was called with
    solves,           \* the forced solves run as processes: candidate ->
                      \* position, own cost matrix, result
    completed         \* the candidates in the order their solves completed

optimizer_vars == <<data, used_teams, available_teams, tie, call, result, first>>

pool_vars == <<pool_size, top_picks, pool_call, pool_result>>

cache_vars ==
    <<cache_files, clock, cache_call, cache_result, last_set, cleared, was_set>>

solve_vars == <<solves, completed>>

vars == <<data, used_teams, available_teams, tie, call, result, first,
          pool_size, top_picks, pool_call, pool_result,
          cache_files, clock, cache_call, cache_result, last_set, cleared, was_set,
          solves, completed>>

\* What a method of the PoolCalculator gives back.
PoolResult(kind, adjusted, text) == [kind |-> kind, adjusted |-> adjusted, text |-> text]

NoPoolResult == PoolResult("none", <<>>, "")

\* No PoolCalculator was built.
NoPool ==
    /\ pool_size = 0
    /\ top_picks = <<>>
    /\ pool_call = "none"
    /\ pool_result = NoPoolResult

\* A call on the CacheManager; max_age_hours 0 stands for None.
CacheCall(op, key, data_arg, max_age_hours) ==
    [op |-> op, key |-> key, data |-> data_arg, max_age_hours |-> max_age_hours]

NoCacheCall == CacheCall("none", <<>>, "", 0)

\* No set() stands: none was made, or a set() or clear() followed it.
NoSet == [key |-> <<>>, data |-> "", time |-> -1]

\* A cache directory without files.
NoFiles == [name \in {} |-> ""]

\* No CacheManager was built.
NoCache ==
    /\ cache_files = NoFiles
    /\ clock = 0
    /\ cache_call = NoCacheCall
    /\ cache_result = "none"
    /\ last_set = NoSet
    /\ cleared = {}
    /\ was_set = {}

\* No forced solve runs as a process.
NoSolves ==
    /\ solves = <<>>
    /\ completed = <<>>

(* ------------------------ SurvivorOptimizer --------------------------- *)

\* sorted(S) for a set of team names.
RECURSIVE SortedTeams(_)
SortedTeams(S) ==
    IF S = {} THEN <<>>
    ELSE LET m == CHOOSE t \in S : \A u \in S : Rank(t) <= Rank(u)
         IN  <<m>> \o SortedTeams(S \ {m})

\* Mutant: the used teams are not taken out.
AllTeamsAvailable(d, used) == SortedTeams({r.team : r \in d})

_get_available_teams(d, used) == SortedTeams({r.team : r \in d} \ used)

\* self.data[(team == t) & (week == w)]
TeamWeekData(d, t, w) == {r \in d : r.team = t /\ r.week = w}

\* .iloc[0] of a non-empty selection (at most one record per team and week).
First(rows) == CHOOSE r \in rows : TRUE

Max(a, b) == IF a >= b THEN a ELSE b

\* -np.log(p) for p in thousandths, in 1e-5, rounded to the nearest unit.
NegLog(p) ==
    CASE p = 1    -> 690776
      [] p = 10   -> 460517
      [] p = 500  -> 69315
      [] p = 600  -> 51083
      [] p = 700  -> 35667
      [] p = 800  -> 22314
      [] p = 900  -> 10536
      [] p = 1000 -> 0

\* list(range(current_week, end_week + 1)) with end_week or TOTAL_WEEKS.
EndWeek(end_week) == IF end_week = 0 THEN TOTAL_WEEKS ELSE end_week

WeekList(current_week, end_week) ==
    [j \in 1..Max(0, EndWeek(end_week) - current_week + 1) |-> current_week + j - 1]

\* create_cost_matrix raises ValueError.
NotEnoughTeams(teams, weeks) == Len(weeks) > Len(teams)

\* Mutant: no clamp under the logarithm; a win probability of 0 is costed
\* like a missing record.
CellCostNoClamp(d, t, w) ==
    LET week_data == TeamWeekData(d, t, w)
    IN  IF week_data # {} /\ First(week_data).win_probability > 0
        THEN NegLog(First(week_data).win_probability)
        ELSE MISSING_COST

\* Mutant: the sign of the logarithm is lost (np.log instead of -np.log).
CellCostSignLost(d, t, w) ==
    LET week_data == TeamWeekData(d, t, w)
    IN  IF week_data # {}
        THEN 0 - NegLog(Max(First(week_data).win_probability, EPSILON))
        ELSE MISSING_COST

\* Mutant: the sentinel of a missing record is the skip threshold itself, which
\* the test "cost > 100" lets through.
CellCostAtThreshold(d, t, w) ==
    LET week_data == TeamWeekData(d, t, w)
    IN  IF week_data # {}
        THEN NegLog(Max(First(week_data).win_probability, EPSILON))
        ELSE SKIP_THRESHOLD

\* One cell of the cost matrix.
CellCost(d, t, w) ==
    LET week_data == TeamWeekData(d, t, w)
    IN  IF week_data # {}
        THEN NegLog(Max(First(week_data).win_probability, EPSILON))
        ELSE MISSING_COST

\* create_cost_matrix: rows = teams, cols = weeks.
create_cost_matrix(d, teams, weeks) ==
    [i \in 1..Len(teams) |-> [j \in 1..Len(weeks) |-> CellCost(d, teams[i], weeks[j])]]

\* Position of a team in the list: teams.index(t).
Index(teams, t) == CHOOSE i \in 1..Len(teams) : teams[i] = t

InList(teams, t) == \E i \in 1..Len(teams) : teams[i] = t

\* Mutant: the row before the forced team's is made cheap (index off by one).
ForceCostsWrongRow(cm, team_idx) ==
    [i \in DOMAIN cm |->
        [j \in DOMAIN cm[i] |->
            IF j = 1
            THEN (IF i = team_idx - 1 THEN FORCED_COST ELSE BLOCKED_COST)
            ELSE cm[i][j]]]

\* Mutant: the forced team's cell keeps its cost; only the others are blocked.
ForceCostsNotCheap(cm, team_idx) ==
    [i \in DOMAIN cm |->
        [j \in DOMAIN cm[i] |->
            IF j = 1 /\ i # team_idx THEN BLOCKED_COST ELSE cm[i][j]]]

\* The forced-pick change of the first column: the forced team's cell becomes
\* very cheap, every other team's first-week cell very expensive.
ForceCosts(cm, team_idx) ==
    [i \in DOMAIN cm |->
        [j \in DOMAIN cm[i] |->
            IF j = 1
            THEN (IF i = team_idx THEN FORCED_COST ELSE BLOCKED_COST)
            ELSE cm[i][j]]]

(* --------------------- scipy linear_sum_assignment -------------------- *)

\* An assignment gives every column (week) a row (team), no row twice.
Assignments(n_rows, n_cols) ==
    {a \in [1..n_cols -> 1..n_rows] : \A j, k \in 1..n_cols : a[j] = a[k] => j = k}

RECURSIVE CostUpTo(_, _, _)
CostUpTo(cm, a, j) == IF j = 0 THEN 0 ELSE CostUpTo(cm, a, j - 1) + cm[a[j]][j]

AssignmentCost(cm, a) == CostUpTo(cm, a, Len(a))

LexLess(a, b) ==
    \E j \in DOMAIN a : a[j] < b[j] /\ \A i \in 1..(j - 1) : a[i] = b[i]

\* The assignments of minimum total cost.
MinAssignments(cm, n_rows, n_cols) ==
    LET all  == Assignments(n_rows, n_cols)
        cost == [a \in all |-> AssignmentCost(cm, a)]
    IN  {a \in all : \A b \in all : cost[a] <= cost[b]}

\* Mutant: a greedy heuristic; every column in turn takes the cheapest row
\* not taken yet (the first or last such row, by the tie rule).
RECURSIVE GreedyUpTo(_, _, _, _)
GreedyUpTo(cm, n_rows, j, rule) ==
    IF j = 0 THEN <<>>
    ELSE LET prev == GreedyUpTo(cm, n_rows, j - 1, rule)
             free == {i \in 1..n_rows : \A k \in 1..(j - 1) : prev[k] # i}
             best == {i \in free : \A k \in free : cm[i][j] <= cm[k][j]}
         IN  Append(prev, IF rule = "first"
                          THEN CHOOSE i \in best : \A k \in best : i <= k
                          ELSE CHOOSE i \in best : \A k \in best : i >= k)

GreedyAssignment(cm, n_rows, n_cols, rule) == GreedyUpTo(cm, n_rows, n_cols, rule)

\* linear_sum_assignment(cost_matrix): an assignment of minimum total cost,
\* ties broken by the solver's fixed rule.
linear_sum_assignment(cm, n_rows, n_cols, rule) ==
    LET best == MinAssignments(cm, n_rows, n_cols)
    IN  IF rule = "first"
        THEN CHOOSE a \in best : \A b \in best : a = b \/ LexLess(a, b)
        ELSE CHOOSE a \in best : \A b \in best : a = b \/ LexLess(b, a)

(* --------------------------- optimize_path ---------------------------- *)

\* total_log_prob += np.log(x); np.exp(total_log_prob): the running product,
\* in millionths, times x in thousandths.
MulProb(prob, x) == (prob \div 1000) * x

\* The step appended for team row i in week column j.
StepOf(d, teams, weeks, cm, i, j) ==
    LET cost == cm[i][j]
        team_week_data == TeamWeekData(d, teams[i], weeks[j])
        win_prob == IF cost < ONE_COST THEN (ONE_COST - cost) \div 100 ELSE FALLBACK_WIN
    IN  [week |-> weeks[j],
         team |-> teams[i],
         win_probability |->
             IF team_week_data # {} THEN First(team_week_data).win_probability
             ELSE win_prob,
         pick_pct |->
             IF team_week_data # {} THEN First(team_week_data).pick_pct
             ELSE DEFAULT_PICK]

\* The loop over zip(row_ind, col_ind), rows ascending: rows 1..i decoded.
RECURSIVE Decode(_, _, _, _, _, _)
Decode(d, teams, weeks, cm, a, i) ==
    IF i = 0 THEN [path |-> <<>>, total_cost |-> 0, prob |-> ONE_PROB]
    ELSE LET prev == Decode(d, teams, weeks, cm, a, i - 1)
             cols == {j \in DOMAIN a : a[j] = i}
         IN  IF cols = {} THEN prev
             ELSE LET j    == CHOOSE c \in cols : TRUE
                      cost == cm[i][j]
                  IN  IF cost > SKIP_THRESHOLD THEN prev
                      ELSE LET step == StepOf(d, teams, weeks, cm, i, j)
                           IN  [path |-> Append(prev.path, step),
                                total_cost |-> prev.total_cost + cost,
                                prob |-> MulProb(prev.prob,
                                                 Max(step.win_probability, EPSILON))]

\* Mutant: the path is left in the order of decoding (by team).
AppendInDecodeOrder(sorted, step) == Append(sorted, step)

\* sorted(path, key=lambda x: x['week']): a stable sort.
RECURSIVE InsertByWeek(_, _)
InsertByWeek(sorted, step) ==
    IF sorted = <<>> THEN <<step>>
    ELSE IF sorted[Len(sorted)].week <= step.week THEN Append(sorted, step)
    ELSE Append(InsertByWeek(SubSeq(sorted, 1, Len(sorted) - 1), step),
                sorted[Len(sorted)])

RECURSIVE SortByWeek(_)
SortByWeek(path) ==
    IF path = <<>> THEN <<>>
    ELSE InsertByWeek(SortByWeek(SubSeq(path, 1, Len(path) - 1)), path[Len(path)])

\* The shapes of what a call gives back.
Result(kind, path, probability, total_cost, weeks_covered, picks) ==
    [kind |-> kind, path |-> path, probability |-> probability,
     total_cost |-> total_cost, weeks_covered |-> weeks_covered, picks |-> picks]

NoResult == Result("none", <<>>, 0, 0, 0, <<>>)

\* An exception leaving the call.
Raised(exception) == Result(exception, <<>>, 0, 0, 0, <<>>)

\* Mutant: no guard before teams.index(force_team), which raises ValueError.
ErrorRaised == Raised("ValueError")

\* {'error': ..., 'path': [], 'probability': 0.0}
ErrorResult == Result("error", <<>>, 0, 0, 0, <<>>)

\* The dictionary returned after decoding.
PathResult(dec) ==
    Result("ok", SortByWeek(dec.path),
           IF dec.path # <<>> THEN dec.prob ELSE 0,
           dec.total_cost, Len(dec.path), <<>>)

\* The forced-pick branch, the solve and the decoding, once the cost matrix
\* exists and a forced team is known to be in the list.
SolveAndDecode(d, teams, rule, weeks, force_team) ==
    IF force_team # NoForce /\ Len(weeks) = 0 THEN Raised("IndexError")
    ELSE LET cost_matrix ==
                 IF force_team # NoForce
                 THEN ForceCosts(create_cost_matrix(d, teams, weeks),
                                 Index(teams, force_team))
                 ELSE create_cost_matrix(d, teams, weeks)
             a == linear_sum_assignment(cost_matrix, Len(teams), Len(weeks), rule)
         IN  PathResult(Decode(d, teams, weeks, cost_matrix, a, Len(teams)))

\* Mutant: the forced team is looked up before the cost matrix is created.
OptimizePathPinFirst(d, teams, rule, current_week, end_week, force_team) ==
    LET weeks == WeekList(current_week, end_week)
    IN  IF force_team # NoForce /\ ~InList(teams, force_team) THEN ErrorResult
        ELSE IF NotEnoughTeams(teams, weeks) THEN Raised("ValueError")
        ELSE SolveAndDecode(d, teams, rule, weeks, force_team)

optimize_path(d, teams, rule, current_week, end_week, force_team) ==
    LET weeks == WeekList(current_week, end_week)
    IN  IF NotEnoughTeams(teams, weeks) THEN Raised("ValueError")
        ELSE IF force_team # NoForce /\ ~InList(teams, force_team) THEN ErrorResult
        ELSE SolveAndDecode(d, teams, rule, weeks, force_team)

(* --------------------------- get_top_picks ---------------------------- *)

\* The entry appended for a forced team whose solve gave a non-empty path.
PickEntry(current_week, team, res) ==
    [current_week |-> current_week,
     recommended_team |-> team,
     win_probability_this_week |-> res.path[1].win_probability,
     pick_percentage_this_week |-> res.path[1].pick_pct,
     full_path |-> res.path,
     overall_win_probability |-> res.probability,
     weeks_covered |-> res.weeks_covered]

\* Mutant: byes are not filtered out; every available team is a candidate.
AvailableAnyWeek(d, teams, current_week) == teams

\* available_this_week: the available teams with a record for current_week.
AvailableThisWeek(d, teams, current_week) ==
    LET teams_this_week == {r.team : r \in {x \in d : x.week = current_week}}
    IN  SelectSeq(teams, LAMBDA t : t \in teams_this_week)

\* Mutant: the results are left in the order of evaluation.
InsertAtEnd(sorted, e) == Append(sorted, e)

\* results.sort(key=overall_win_probability, reverse=True): a stable sort.
RECURSIVE InsertByProb(_, _)
InsertByProb(sorted, e) ==
    IF sorted = <<>> THEN <<e>>
    ELSE IF sorted[Len(sorted)].overall_win_probability >= e.overall_win_probability
         THEN Append(sorted, e)
    ELSE Append(InsertByProb(SubSeq(sorted, 1, Len(sorted) - 1), e),
                sorted[Len(sorted)])

RECURSIVE SortByProb(_)
SortByProb(results) ==
    IF results = <<>> THEN <<>>
    ELSE InsertByProb(SortByProb(SubSeq(results, 1, Len(results) - 1)),
                      results[Len(results)])

\* The loop over available_this_week: candidates 1..k evaluated. An exception
\* of optimize_path leaves the loop and the call.
RECURSIVE Collect(_, _, _, _, _, _, _)
Collect(d, teams, rule, current_week, end_week, cands, k) ==
    IF k = 0 THEN [raised |-> "", results |-> <<>>]
    ELSE LET prev == Collect(d, teams, rule, current_week, end_week, cands, k - 1)
             res  == optimize_path(d, teams, rule, current_week, end_week, cands[k])
         IN  IF prev.raised # "" THEN prev
             ELSE IF res.kind \notin {"ok", "error"}
                  THEN [raised |-> res.kind, results |-> <<>>]
             ELSE IF res.kind = "ok" /\ res.path # <<>>
                  THEN [raised |-> "",
                        results |-> Append(prev.results,
                                           PickEntry(current_week, cands[k], res))]
             ELSE prev

\* Mutant: the results are cut to n_picks before they are sorted.
TopPicksCutFirst(d, teams, rule, current_week, n_picks, end_week) ==
    LET cands == AvailableThisWeek(d, teams, current_week)
        got   == Collect(d, teams, rule, current_week, end_week, cands, Len(cands))
        cut   == SubSeq(got.results, 1, IF n_picks < Len(got.results) THEN n_picks
                                        ELSE Len(got.results))
    IN  IF got.raised # "" THEN Raised(got.raised)
        ELSE Result("picks", <<>>, 0, 0, 0, SortByProb(cut))

get_top_picks(d, teams, rule, current_week, n_picks, end_week) ==
    LET cands == AvailableThisWeek(d, teams, current_week)
        got   == Collect(d, teams, rule, current_week, end_week, cands, Len(cands))
        ranked == SortByProb(got.results)
    IN  IF got.raised # "" THEN Raised(got.raised)
        ELSE Result("picks", <<>>, 0, 0, 0,
                    SubSeq(ranked, 1, IF n_picks < Len(ranked) THEN n_picks
                                      ELSE Len(ranked)))

(* ------------------------------ behaviour ----------------------------- *)

Call(op, current_week, end_week, force_team, n_picks) ==
    [op |-> op, current_week |-> current_week, end_week |-> end_week,
     force_team |-> force_team, n_picks |-> n_picks]

NoCall == Call("none", 0, 0, NoForce, 0)

\* The weeks a caller asks about: those of the table's season window.
CallWeeks ==
    IF data = ExampleTable THEN ExampleWeeks
    ELSE IF data = LongTable THEN LongWeeks
    ELSE SeasonWeeks

\* The end weeks a caller passes: none (0: the default, as every caller of
\* the repository does), or for the worked example a week of its window.
CallEnds == IF data = ExampleTable THEN {0} \cup ExampleWeeks ELSE {0}

\* No call was made yet.
NoFirst == [call |-> NoCall, result |-> NoResult, between |-> FALSE]

\* SurvivorOptimizer(data, used_teams)
Init ==
    /\ used_teams \in SUBSET Teams
    /\ data \in GeneralTables(used_teams) \cup {ExampleTable}
                \cup (IF used_teams = {} THEN {LongTable} ELSE {})
    /\ available_teams = _get_available_teams(data, used_teams)
    /\ tie \in TieRules
    /\ call = NoCall
    /\ result = NoResult
    /\ first = NoFirst
    /\ NoPool
    /\ NoCache
    /\ NoSolves

\* Mutant: the forced pick is kept on the optimizer; the forced team counts as
\* used from then on.
OptimizePathKeepsPin(current_week, end_week, force_team) ==
    /\ call' = Call("optimize_path", current_week, end_week, force_team, 0)
    /\ result' = optimize_path(data, available_teams, tie,
                               current_week, end_week, force_team)
    /\ used_teams' = (IF force_team \in Teams THEN used_teams \cup {force_team}
                      ELSE used_teams)
    /\ available_teams' = _get_available_teams(data, used_teams')
    /\ UNCHANGED <<data, tie>>
    /\ UNCHANGED <<pool_vars, cache_vars, solve_vars>>

\* optimizer.optimize_path(current_week, end_week, force_team)
OptimizePath(current_week, end_week, force_team) ==
    /\ call' = Call("optimize_path", current_week, end_week, force_team, 0)
    /\ result' = optimize_path(data, available_teams, tie,
                               current_week, end_week, force_team)
    /\ UNCHANGED <<data, used_teams, available_teams, tie>>
    /\ UNCHANGED <<pool_vars, cache_vars, solve_vars>>

\* What create_cost_matrix returns: the matrix with its row and column labels.
MatrixResult(cm, teams, weeks) ==
    [kind |-> "matrix", cost_matrix |-> cm, teams |-> teams, weeks |-> weeks]

\* optimizer.create_cost_matrix(weeks) for the weeks current_week..end_week
CreateCostMatrix(current_week, end_week) ==
    LET weeks == WeekList(current_week, end_week)
    IN  /\ call' = Call("create_cost_matrix", current_week, end_week, NoForce, 0)
        /\ result' = IF NotEnoughTeams(available_teams, weeks)
                      THEN Raised("ValueError")
                      ELSE MatrixResult(create_cost_matrix(data, available_teams, weeks),
                                        available_teams, weeks)
        /\ UNCHANGED <<data, used_teams, available_teams, tie>>
        /\ UNCHANGED <<pool_vars, cache_vars, solve_vars>>

\* optimizer.get_top_picks(current_week, n_picks, end_week)
GetTopPicks(current_week, n_picks, end_week) ==
    /\ call' = Call("get_top_picks", current_week, end_week, NoForce, n_picks)
    /\ result' = get_top_picks(data, available_teams, tie,
                               current_week, n_picks, end_week)
    /\ UNCHANGED <<data, used_teams, available_teams, tie>>
    /\ UNCHANGED <<pool_vars, cache_vars, solve_vars>>

OptimizePathCall ==
    \E current_week \in CallWeeks, end_week \in CallEnds,
       force_team \in Teams \cup {NoForce, Stranger} :
        /\ OptimizePath(current_week, end_week, force_team)
        /\ UNCHANGED first

GetTopPicksCall ==
    \E current_week \in CallWeeks, end_week \in CallEnds,
       n_picks \in 1..MaxPicks :
        /\ GetTopPicks(current_week, n_picks, end_week)
        /\ UNCHANGED first

Next == OptimizePathCall \/ GetTopPicksCall

Spec == Init /\ [][Next]_vars

(* ------------------- behaviour with the first call kept --------------- *)

\* The rows of the tables on which calls are repeated.
RepeatRows == { <<High, Low>>, <<NoRecord, High>> }

RepeatTables(used) ==
    {TableOf(f) : f \in {g \in [Teams -> RepeatRows \cup {UsedRow}] :
                             \A t \in Teams : g[t] = UsedRow <=> t \in used}}

RepeatInit ==
    /\ used_teams \in SUBSET Teams
    /\ data \in RepeatTables(used_teams) \cup {d \in {ExampleTable} : used_teams = {}}
    /\ available_teams = _get_available_teams(data, used_teams)
    /\ tie \in TieRules
    /\ call = NoCall
    /\ result = NoResult
    /\ first = NoFirst
    /\ NoPool
    /\ NoCache
    /\ NoSolves

\* The first call of a behaviour and its result are kept for comparison.
KeepFirst ==
    first' = IF first = NoFirst
             THEN [call |-> call', result |-> result', between |-> FALSE]
             ELSE [first EXCEPT !.between = @ \/ call' # first.call]

RepeatOptimizePath ==
    \E current_week \in CallWeeks, end_week \in CallEnds,
       force_team \in Teams \cup {NoForce, Stranger} :
        /\ OptimizePath(current_week, end_week, force_team)
        /\ KeepFirst

RepeatGetTopPicks ==
    \E current_week \in CallWeeks, end_week \in CallEnds,
       n_picks \in 1..MaxPicks :
        /\ GetTopPicks(current_week, n_picks, end_week)
        /\ KeepFirst

RepeatCreateCostMatrix ==
    \E current_week \in CallWeeks, end_week \in CallEnds :
        /\ CreateCostMatrix(current_week, end_week)
        /\ KeepFirst

RepeatNext == RepeatCreateCostMatrix \/ RepeatOptimizePath \/ RepeatGetTopPicks

RepeatSpec == RepeatInit /\ [][RepeatNext]_vars

(* --------------------------- PoolCalculator --------------------------- *)

\* calculate_expected_value(win_prob, pick_pct, remaining_entries): the
\* probabilities in thousandths, the value in thousandths rounded down;
\* remaining_entries = 0 stands for None (`or` treats both alike).
calculate_expected_value(n, win_prob, pick_pct, remaining_entries) ==
    LET remaining == IF remaining_entries = 0 THEN n ELSE remaining_entries
        \* pick_pct * win_prob + (1 - pick_pct) * (1 - win_prob), in millionths
        share == pick_pct * win_prob + (1000 - pick_pct) * (1000 - win_prob)
        \* in millionths of an entry
        survivors_if_win == remaining * share
    IN  IF survivors_if_win >= 1000000
        THEN (win_prob * 1000000) \div share
        ELSE win_prob * remaining

\* _estimate_survival_rate: 0.5 + (your_win_prob - 0.5) * 0.7, in thousandths.
_estimate_survival_rate(your_win_prob, pick_pct) ==
    500 + ((your_win_prob - 500) * 7) \div 10

\* The (win probability, remaining) pairs for which the float product
\* remaining * avg_survival_rate falls just under the exact integer, so that
\* int() gives one less (0.5 + (0.6 - 0.5) * 0.7 is 0.57 only nearly).
RoundedUnder == {<<600, 100>>, <<600, 200>>}

\* Mutant: the estimate is not kept at one entry or more.
RemainingAfterNoFloor(remaining, win_prob, pick_pct) ==
    (remaining * _estimate_survival_rate(win_prob, pick_pct)) \div 1000

\* max(int(remaining * avg_survival_rate), 1)
RemainingAfter(remaining, win_prob, pick_pct) ==
    LET exact == (remaining * _estimate_survival_rate(win_prob, pick_pct)) \div 1000
    IN  Max(IF <<win_prob, remaining>> \in RoundedUnder THEN exact - 1 ELSE exact, 1)

\* The loop of calculate_path_ev after the first k picks of the path.
RECURSIVE PathEvLoop(_, _, _)
PathEvLoop(n, path, k) ==
    IF k = 0
    THEN [remaining |-> n, cumulative_survival_prob |-> ONE_PROB, week_evs |-> <<>>]
    ELSE LET prev == PathEvLoop(n, path, k - 1)
             pick == path[k]
         IN  [remaining |->
                  RemainingAfter(prev.remaining, pick.win_probability, pick.pick_pct),
              cumulative_survival_prob |->
                  MulProb(prev.cumulative_survival_prob, pick.win_probability),
              week_evs |->
                  Append(prev.week_evs,
                         calculate_expected_value(n, pick.win_probability,
                                                  pick.pick_pct, prev.remaining))]

RECURSIVE SumOf(_)
SumOf(xs) == IF xs = <<>> THEN 0 ELSE SumOf(SubSeq(xs, 1, Len(xs) - 1)) + xs[Len(xs)]

\* np.mean of a non-empty list, rounded down.
Mean(xs) == SumOf(xs) \div Len(xs)

\* calculate_path_ev(path) with initial_pool_size = None.
calculate_path_ev(n, path) ==
    LET end == PathEvLoop(n, path, Len(path))
    IN  [path_ev |-> Mean(end.week_evs),
         final_survival_prob |-> end.cumulative_survival_prob,
         estimated_final_pool_size |-> end.remaining,
         estimated_win_prob |-> ONE_PROB \div Max(end.remaining, 1),
         week_evs |-> end.week_evs]

\* Mutant: the bands include their lower boundary (>= for >).
WeightsFromBoundary(n) ==
    IF n >= 100 THEN <<4, 6>> ELSE IF n >= 20 THEN <<6, 4>> ELSE <<8, 2>>

\* The weights (of the win-out probability, of the path EV) of the composite
\* score, in tenths, by the size of the pool.
Weights(n) ==
    IF n > 100 THEN <<4, 6>> ELSE IF n > 20 THEN <<6, 4>> ELSE <<8, 2>>

\* Mutant: the path EV is taken off the score instead of added to it.
CompositeScoreLessEv(n, overall_win_probability, path_ev) ==
    Weights(n)[1] * overall_win_probability - Weights(n)[2] * path_ev * 1000

\* score = w_prob * overall_win_probability + w_ev * path_ev, in 1e-7.
composite_score(n, overall_win_probability, path_ev) ==
    Weights(n)[1] * overall_win_probability + Weights(n)[2] * path_ev * 1000

\* The adjusted copy of one pick: the new keys are set on the copy.
AdjustedPick(n, pick) ==
    LET path_metrics == calculate_path_ev(n, pick.full_path)
    IN  [path_ev |-> path_metrics.path_ev,
         estimated_win_probability |-> path_metrics.estimated_win_prob,
         estimated_final_pool_size |-> path_metrics.estimated_final_pool_size,
         composite_score |->
             composite_score(n, pick.overall_win_probability, path_metrics.path_ev)]
        @@ pick

\* Mutant: the list is sorted without reverse=True.
InsertByScoreAscending(sorted, e) ==
    IF \E i \in DOMAIN sorted : sorted[i].composite_score > e.composite_score
    THEN LET i == CHOOSE k \in DOMAIN sorted :
                      /\ sorted[k].composite_score > e.composite_score
                      /\ \A m \in 1..(k - 1) : sorted[m].composite_score <= e.composite_score
         IN  SubSeq(sorted, 1, i - 1) \o <<e>> \o SubSeq(sorted, i, Len(sorted))
    ELSE Append(sorted, e)

\* Mutant: a sort that puts an entry before the entries of equal score.
RECURSIVE InsertBeforeEqualScore(_, _)
InsertBeforeEqualScore(sorted, e) ==
    IF sorted = <<>> THEN <<e>>
    ELSE IF sorted[Len(sorted)].composite_score > e.composite_score
         THEN Append(sorted, e)
    ELSE Append(InsertBeforeEqualScore(SubSeq(sorted, 1, Len(sorted) - 1), e),
                sorted[Len(sorted)])

\* adjusted_picks.sort(key=composite_score, reverse=True): a stable sort.
RECURSIVE InsertByScore(_, _)
InsertByScore(sorted, e) ==
    IF sorted = <<>> THEN <<e>>
    ELSE IF sorted[Len(sorted)].composite_score >= e.composite_score
         THEN Append(sorted, e)
    ELSE Append(InsertByScore(SubSeq(sorted, 1, Len(sorted) - 1), e),
                sorted[Len(sorted)])

RECURSIVE SortByScore(_)
SortByScore(adjusted_picks) ==
    IF adjusted_picks = <<>> THEN <<>>
    ELSE InsertByScore(SortByScore(SubSeq(adjusted_picks, 1, Len(adjusted_picks) - 1)),
                       adjusted_picks[Len(adjusted_picks)])

adjust_picks_for_pool_size(n, pick_list) ==
    SortByScore([i \in DOMAIN pick_list |-> AdjustedPick(n, pick_list[i])])

\* Mutant: the bands include their upper boundary (<= for <).
StrategyUpToBoundary(n) ==
    IF n <= 10 THEN "Small pool"
    ELSE IF n <= 50 THEN "Medium pool"
    ELSE IF n <= 200 THEN "Large pool"
    ELSE "Very large pool"

\* get_strategy_recommendation: the text, named by its first words.
get_strategy_recommendation(n) ==
    IF n < 10 THEN "Small pool"
    ELSE IF n < 50 THEN "Medium pool"
    ELSE IF n < 200 THEN "Large pool"
    ELSE "Very large pool"

(* --------------------- behaviour of a PoolCalculator ------------------ *)

\* The pool sizes a calculator is built with: the sizes around every boundary
\* of a band, and the smallest pool.
PoolSizes == {1, 9, 10, 20, 21, 49, 50, 100, 101, 199, 200, 201}

\* Some other team than t.
Other(t) == CHOOSE u \in Teams : u # t

\* The paths a pick for team t may carry: one or two steps.
PoolPaths(t) ==
    { <<Row(t, 17, 900, 400)>>,
      <<Row(t, 17, 600, 100), Row(Other(t), 18, 900, 400)>>,
      <<Row(t, 17, 0, 50), Row(Other(t), 18, 600, 100)>> }

\* The win-out probabilities a pick may carry, in millionths.
PoolProbs == {540000, 900000}

\* The picks a list may hold, shaped as get_top_picks shapes them.
PoolPicks ==
    {PickEntry(17, t, [path |-> p, probability |-> q, weeks_covered |-> Len(p)]) :
        <<t, p, q>> \in {c \in Teams \X (UNION {PoolPaths(u) : u \in Teams}) \X PoolProbs :
                            c[2] \in PoolPaths(c[1])}}

\* The lists handed to adjust_picks_for_pool_size: no team twice.
PickLists ==
    {l \in UNION {[1..k -> PoolPicks] : k \in 0..NumTeams} :
        \A i, j \in DOMAIN l : l[i].recommended_team = l[j].recommended_team => i = j}

\* PoolCalculator(pool_size), and the list it will be given; no optimizer.
PoolInit ==
    /\ pool_size \in PoolSizes
    /\ top_picks \in PickLists
    /\ pool_call = "none"
    /\ pool_result = NoPoolResult
    /\ data = {}
    /\ used_teams = {}
    /\ available_teams = <<>>
    /\ tie = "first"
    /\ call = NoCall
    /\ result = NoResult
    /\ first = NoFirst
    /\ NoCache
    /\ NoSolves

\* pool_calc.adjust_picks_for_pool_size(top_picks)
AdjustPicksCall ==
    /\ pool_call' = "adjust_picks_for_pool_size"
    /\ pool_result' = PoolResult("adjusted",
                                 adjust_picks_for_pool_size(pool_size, top_picks), "")
    /\ UNCHANGED <<pool_size, top_picks>>
    /\ UNCHANGED <<optimizer_vars, cache_vars, solve_vars>>

\* pool_calc.get_strategy_recommendation()
StrategyCall ==
    /\ pool_call' = "get_strategy_recommendation"
    /\ pool_result' = PoolResult("strategy", <<>>, get_strategy_recommendation(pool_size))
    /\ UNCHANGED <<pool_size, top_picks>>
    /\ UNCHANGED <<optimizer_vars, cache_vars, solve_vars>>

PoolNext == AdjustPicksCall \/ StrategyCall

PoolSpec == PoolInit /\ [][PoolNext]_vars

(* ------------- get_top_picks with its solves as processes ------------- *)

\* One forced solve: where it stands in optimize_path, the cost matrix it
\* created (a local of its own call), and what it returned.
Solve(pc, cost_matrix, res) == [pc |-> pc, cost_matrix |-> cost_matrix, result |-> res]

\* The candidates of the call, and the weeks of its horizon.
Candidates == AvailableThisWeek(data, available_teams, call.current_week)

SolveWeeks == WeekList(call.current_week, call.end_week)

\* The solve of team t has returned (or raised) res.
Return(s, t, res) == [s EXCEPT ![t] = Solve("done", @.cost_matrix, res)]

\* Mutant: the cost matrix is one object shared by the solves, so the forced
\* costs written by one solve are seen by every solve that created its matrix.
WriteSharedMatrix(s, t, cm) ==
    [u \in DOMAIN s |->
        IF u = t THEN Solve("forced", cm, s[u].result)
        ELSE IF s[u].pc \in {"created", "forced"} THEN Solve(s[u].pc, cm, s[u].result)
        ELSE s[u]]

\* The forced costs are written into the matrix of the solve's own call.
WriteOwnMatrix(s, t, cm) == [s EXCEPT ![t] = Solve("forced", cm, @.result)]

\* SurvivorOptimizer(data, used_teams), no call made yet.
ParallelInit ==
    /\ used_teams \in SUBSET Teams
    /\ data \in RepeatTables(used_teams) \cup {d \in {ExampleTable} : used_teams = {}}
    /\ available_teams = _get_available_teams(data, used_teams)
    /\ tie \in TieRules
    /\ call = NoCall
    /\ result = NoResult
    /\ first = NoFirst
    /\ NoSolves
    /\ NoPool
    /\ NoCache

\* get_top_picks(current_week, n_picks, end_week) starts one solve for every
\* team of available_this_week.
SpawnSolves ==
    \E current_week \in CallWeeks, end_week \in CallEnds, n_picks \in 1..MaxPicks :
        /\ call = NoCall
        /\ call' = Call("get_top_picks", current_week, end_week, NoForce, n_picks)
        /\ solves' = [t \in {r.team : r \in {x \in data : x.week = current_week}}
                             \ used_teams |-> Solve("start", <<>>, NoResult)]
        /\ completed' = <<>>
        /\ UNCHANGED <<data, used_teams, available_teams, tie, result, first>>
        /\ UNCHANGED <<pool_vars, cache_vars>>

\* cost_matrix, teams, weeks = self.create_cost_matrix(weeks)
CreateStep(t) ==
    /\ solves[t].pc = "start"
    /\ IF NotEnoughTeams(available_teams, SolveWeeks)
       THEN /\ solves' = Return(solves, t, Raised("ValueError"))
            /\ completed' = Append(completed, t)
       ELSE /\ solves' = [solves EXCEPT ![t] =
                              Solve("created",
                                    create_cost_matrix(data, available_teams, SolveWeeks),
                                    NoResult)]
            /\ UNCHANGED completed
    /\ UNCHANGED <<optimizer_vars, pool_vars, cache_vars>>

\* if force_team: the check, then the forced costs written into the matrix.
ForceStep(t) ==
    /\ solves[t].pc = "created"
    /\ IF ~InList(available_teams, t)
       THEN /\ solves' = Return(solves, t, ErrorResult)
            /\ completed' = Append(completed, t)
       ELSE IF Len(SolveWeeks) = 0
       THEN /\ solves' = Return(solves, t, Raised("IndexError"))
            /\ completed' = Append(completed, t)
       ELSE /\ solves' = WriteOwnMatrix(solves, t,
                              ForceCosts(solves[t].cost_matrix, Index(available_teams, t)))
            /\ UNCHANGED completed
    /\ UNCHANGED <<optimizer_vars, pool_vars, cache_vars>>

\* linear_sum_assignment(cost_matrix), the decoding loop, the returned dict.
SolveStep(t) ==
    /\ solves[t].pc = "forced"
    /\ LET cost_matrix == solves[t].cost_matrix
           a == linear_sum_assignment(cost_matrix, Len(available_teams),
                                      Len(SolveWeeks), tie)
       IN  solves' = Return(solves, t,
                            PathResult(Decode(data, available_teams, SolveWeeks,
                                              cost_matrix, a, Len(available_teams))))
    /\ completed' = Append(completed, t)
    /\ UNCHANGED <<optimizer_vars, pool_vars, cache_vars>>

\* The loop over available_this_week taking the result of each solve in
\* turn: candidates 1..k taken.
RECURSIVE GatherResults(_, _, _)
GatherResults(s, cands, k) ==
    IF k = 0 THEN [raised |-> "", results |-> <<>>]
    ELSE LET prev == GatherResults(s, cands, k - 1)
             res  == s[cands[k]].result
         IN  IF prev.raised # "" THEN prev
             ELSE IF res.kind \notin {"ok", "error"}
                  THEN [raised |-> res.kind, results |-> <<>>]
             ELSE IF res.kind = "ok" /\ res.path # <<>>
                  THEN [raised |-> "",
                        results |-> Append(prev.results,
                                           PickEntry(call.current_week, cands[k], res))]
             ELSE prev

\* Once every solve is done: results.sort(...), return results[:n_picks].
Gather ==
    /\ call.op = "get_top_picks"
    /\ result = NoResult
    /\ \A t \in DOMAIN solves : solves[t].pc = "done"
    /\ LET got    == GatherResults(solves, Candidates, Len(Candidates))
           ranked == SortByProb(got.results)
       IN  result' = IF got.raised # "" THEN Raised(got.raised)
                     ELSE Result("picks", <<>>, 0, 0, 0,
                                 SubSeq(ranked, 1, IF call.n_picks < Len(ranked)
                                                   THEN call.n_picks ELSE Len(ranked)))
    /\ UNCHANGED <<data, used_teams, available_teams, tie, call, first>>
    /\ UNCHANGED <<solve_vars, pool_vars, cache_vars>>

CreateSteps == \E t \in DOMAIN solves : CreateStep(t)

ForceSteps == \E t \in DOMAIN solves : ForceStep(t)

SolveSteps == \E t \in DOMAIN solves : SolveStep(t)

ParallelNext == SpawnSolves \/ CreateSteps \/ ForceSteps \/ SolveSteps \/ Gather

ParallelSpec == ParallelInit /\ [][ParallelNext]_vars

(* ---------------------------- CacheManager ---------------------------- *)

\* A key is a string, held as the sequence of its characters.
\* key.replace('/', '_').replace('\\', '_')
SafeKey(key) ==
    [i \in DOMAIN key |-> IF key[i] \in {"/", "\\"} THEN "_" ELSE key[i]]

\* _get_cache_path: the file f"{safe_key}.{extension}" of the cache directory.
_get_cache_path(key, extension) == <<SafeKey(key), extension>>

_get_metadata_path(key) == _get_cache_path(key, "meta.json")

\* None, as a key and as a returned value.
None == <<"None">>

\* A data file that pickle.load cannot read: pickle.dump raised after
\* open(cache_path, 'wb') had truncated the file.
Corrupt == [pickle |-> "corrupt"]

\* An object pickle.dump raises on.
Unpicklable == "lambda"

\* The file is written (created or overwritten) with the content.
WriteFile(files, name, content) ==
    [n \in DOMAIN files \cup {name} |-> IF n = name THEN content ELSE files[n]]

\* os.remove(name) if os.path.exists(name).
RemoveFile(files, name) == [n \in DOMAIN files \ {name} |-> files[n]]

\* Mutant: the entry expires at half the age.
IsCacheValidHalfAge(files, now, key, max_age_hours) ==
    LET metadata_path == _get_metadata_path(key)
        max_age == IF max_age_hours = 0 THEN CACHE_EXPIRY_HOURS ELSE max_age_hours
    IN  IF metadata_path \notin DOMAIN files THEN FALSE
        ELSE (now - files[metadata_path].timestamp) * 2 < max_age

\* is_cache_valid(key, max_age_hours): max_age_hours or CACHE_EXPIRY_HOURS.
is_cache_valid(files, now, key, max_age_hours) ==
    LET metadata_path == _get_metadata_path(key)
        max_age == IF max_age_hours = 0 THEN CACHE_EXPIRY_HOURS ELSE max_age_hours
    IN  IF metadata_path \notin DOMAIN files THEN FALSE
        ELSE now - files[metadata_path].timestamp < max_age

\* get(key): None unless the entry is valid and its data file unpickles.
get(files, now, key) ==
    LET cache_path == _get_cache_path(key, "pkl")
    IN  IF ~is_cache_valid(files, now, key, 0) THEN None
        ELSE IF cache_path \notin DOMAIN files THEN None
        ELSE IF files[cache_path] = Corrupt THEN None
        ELSE <<files[cache_path].pickle>>

\* set(key, data): the data file, then the metadata file; what the directory
\* holds afterwards and what is returned.
set(files, now, key, data_arg) ==
    LET cache_path    == _get_cache_path(key, "pkl")
        metadata_path == _get_metadata_path(key)
    IN  IF data_arg = Unpicklable
        THEN [files |-> WriteFile(files, cache_path, Corrupt), returned |-> FALSE]
        ELSE [files |-> WriteFile(WriteFile(files, cache_path, [pickle |-> data_arg]),
                                  metadata_path, [timestamp |-> now, key |-> key]),
              returned |-> TRUE]

\* clear(key): `if key:` is false for None and for the empty string.
clear(files, key) ==
    IF key # None /\ key # <<>>
    THEN RemoveFile(RemoveFile(files, _get_cache_path(key, "pkl")),
                    _get_metadata_path(key))
    ELSE NoFiles

(* --------------------- behaviour of a CacheManager -------------------- *)

\* The keys callers use: a plain one, two that differ from it in a
\* separator only, and the empty string.
Keys == { <<"a", "_", "b">>, <<"a", "/", "b">>, <<"a", "\\", "b">>, <<>> }

\* The objects cached.
CacheData == {"x", "y", Unpicklable}

\* The max_age_hours passed to is_cache_valid: None, or half the expiry.
MaxAges == {0, CACHE_EXPIRY_HOURS \div 2}

\* CacheManager() on an empty directory; no optimizer, no calculator.
CacheInit ==
    /\ cache_files = NoFiles
    /\ clock = 0
    /\ cache_call = NoCacheCall
    /\ cache_result = "none"
    /\ last_set = NoSet
    /\ cleared = {}
    /\ was_set = {}
    /\ data = {}
    /\ used_teams = {}
    /\ available_teams = <<>>
    /\ tie = "first"
    /\ call = NoCall
    /\ result = NoResult
    /\ first = NoFirst
    /\ NoPool
    /\ NoSolves

\* cache.set(key, data)
SetCall ==
    \E key \in Keys, data_arg \in CacheData :
        LET done == set(cache_files, clock, key, data_arg)
        IN  /\ cache_call' = CacheCall("set", key, data_arg, 0)
            /\ cache_files' = done.files
            /\ cache_result' = <<done.returned>>
            /\ last_set' = IF done.returned
                            THEN [key |-> key, data |-> data_arg, time |-> clock]
                            ELSE NoSet
            /\ cleared' = IF done.returned THEN cleared \ {key} ELSE cleared
            /\ was_set' = was_set \cup {key}
            /\ UNCHANGED clock
            /\ UNCHANGED <<optimizer_vars, pool_vars, solve_vars>>

\* cache.get(key)
GetCall ==
    \E key \in Keys :
        /\ cache_call' = CacheCall("get", key, "", 0)
        /\ cache_result' = get(cache_files, clock, key)
        /\ UNCHANGED <<cache_files, clock, last_set, cleared, was_set>>
        /\ UNCHANGED <<optimizer_vars, pool_vars, solve_vars>>

\* cache.is_cache_valid(key, max_age_hours)
IsCacheValidCall ==
    \E key \in Keys, max_age_hours \in MaxAges :
        /\ cache_call' = CacheCall("is_cache_valid", key, "", max_age_hours)
        /\ cache_result' = <<is_cache_valid(cache_files, clock, key, max_age_hours)>>
        /\ UNCHANGED <<cache_files, clock, last_set, cleared, was_set>>
        /\ UNCHANGED <<optimizer_vars, pool_vars, solve_vars>>

\* cache.clear(key), cache.clear()
ClearCall ==
    \E key \in Keys \cup {None} :
        /\ cache_call' = CacheCall("clear", key, "", 0)
        /\ cache_files' = clear(cache_files, key)
        /\ cache_result' = None
        /\ last_set' = NoSet
        /\ cleared' = IF key = None THEN Keys
                       ELSE IF key = <<>> THEN cleared
                       ELSE cleared \cup {key}
        /\ UNCHANGED <<clock, was_set>>
        /\ UNCHANGED <<optimizer_vars, pool_vars, solve_vars>>

\* Time passes: half the expiry.
Tick ==
    /\ clock < MaxTicks * (CACHE_EXPIRY_HOURS \div 2)
    /\ clock' = clock + CACHE_EXPIRY_HOURS \div 2
    /\ UNCHANGED <<cache_files, cache_call, cache_result, last_set, cleared, was_set>>
    /\ UNCHANGED <<optimizer_vars, pool_vars, solve_vars>>

CacheNext == SetCall \/ GetCall \/ IsCacheValidCall \/ ClearCall \/ Tick

CacheSpec == CacheInit /\ [][CacheNext]_vars

(* ------------------------ notions of the claims ----------------------- *)

IsPathCall == call.op = "optimize_path"

IsPicksCall == call.op = "get_top_picks"

Forced == call.force_team # NoForce

\* The weeks of the horizon [current_week, end_week] of the last call.
Horizon == call.current_week .. (IF call.end_week = 0 THEN TOTAL_WEEKS ELSE call.end_week)

\* The unused teams of the table.
Available == {r.team : r \in data} \ used_teams

HasRecord(t, w) == \E r \in data : r.team = t /\ r.week = w

WinProbability(t, w) == (CHOOSE r \in data : r.team = t /\ r.week = w).win_probability

\* A record for every (available team, week) pair of the horizon.
CompleteTable == \A t \in Available, w \in Horizon : HasRecord(t, w)

\* The horizon can be covered: at least as many available teams as weeks.
EnoughTeams == Cardinality(Available) >= Cardinality(Horizon)

Steps == DOMAIN result.path

\* The product of the steps' win probabilities, in millionths.
RECURSIVE ProductOfSteps(_)
ProductOfSteps(path) ==
    IF path = <<>> THEN 1000000
    ELSE (ProductOfSteps(SubSeq(path, 1, Len(path) - 1)) \div 1000)
         * path[Len(path)].win_probability

\* The assignments of distinct available teams to the weeks of the horizon.
InjectiveAssignments ==
    {g \in [Horizon -> Available] : \A v, w \in Horizon : g[v] = g[w] => v = w}

\* The product of an assignment's win probabilities, in millionths.
RECURSIVE ProductOver(_, _)
ProductOver(g, weeks) ==
    IF weeks = {} THEN 1000000
    ELSE LET w == CHOOSE x \in weeks : TRUE
         IN  (ProductOver(g, weeks \ {w}) \div 1000) * WinProbability(g[w], w)

Step(w, t, p, q) == [week |-> w, team |-> t, win_probability |-> p, pick_pct |-> q]

(* ------------------------------- claims ------------------------------- *)

\* C1: with a record for every (available team, week) pair of the horizon and
\* at least n available teams over the n weeks, optimize_path without a forced
\* team returns exactly n steps, one for each week of the horizon, all teams
\* distinct, and weeks_covered = n.
C1_OneStepPerWeek ==
    (IsPathCall /\ ~Forced /\ CompleteTable /\ EnoughTeams) =>
        /\ result.kind = "ok"
        /\ Len(result.path) = Cardinality(Horizon)
        /\ result.weeks_covered = Cardinality(Horizon)
        /\ {result.path[i].week : i \in Steps} = Horizon
        /\ \A i, j \in Steps : result.path[i].team = result.path[j].team => i = j

\* C1's case: an unforced solve over two weeks of a complete table from which
\* a team is already used, a step of which has win probability 0.
C1_Witness ==
    /\ IsPathCall /\ ~Forced /\ CompleteTable /\ EnoughTeams
    /\ Cardinality(Horizon) = 2 /\ used_teams # {}
    /\ result.kind = "ok" /\ Len(result.path) = 2
    /\ \E i \in Steps : result.path[i].win_probability = 0

\* C2: every path optimize_path returns has no used team, no team twice, no
\* week twice, only weeks of [current_week, end_week], in strictly increasing
\* week order.
C2_PathWellFormed ==
    IsPathCall =>
        /\ \A i \in Steps :
              /\ result.path[i].team \notin used_teams
              /\ result.path[i].week \in Horizon
        /\ \A i, j \in Steps :
              i < j => /\ result.path[i].week < result.path[j].week
                       /\ result.path[i].team # result.path[j].team

\* C2's case: a forced two-step path over a table with a missing record and a
\* used team, whose second-week team sorts before its first-week team.
C2_Witness ==
    /\ IsPathCall /\ Forced /\ ~CompleteTable /\ used_teams # {}
    /\ result.kind = "ok" /\ Len(result.path) = 2
    /\ Rank(result.path[2].team) < Rank(result.path[1].team)

ExampleCall(force_team) ==
    /\ data = ExampleTable /\ used_teams = {}
    /\ call = Call("optimize_path", 7, 8, force_team, 0)

\* C4: on the worked example optimize_path(7, 8) returns A in week 7 then B in
\* week 8 with aggregate probability 0.72, the unique maximum over all
\* assignments of two of the three teams to the two weeks.
C4_WorkedExample ==
    ExampleCall(NoForce) =>
        /\ result.kind = "ok"
        /\ result.path = <<Step(7, "A", 800, 50), Step(8, "B", 900, 50)>>
        /\ result.probability = 720000
        /\ \A g \in InjectiveAssignments :
              \/ (g[7] = "A" /\ g[8] = "B")
              \/ ProductOver(g, Horizon) < 720000

C4_Witness == ExampleCall(NoForce) /\ result.kind = "ok" /\ Len(result.path) = 2

\* C5: on the worked example optimize_path(7, 8, force_team=C) returns C in
\* week 7 then B in week 8.
C5_WorkedExampleForced ==
    ExampleCall("C") =>
        /\ result.kind = "ok"
        /\ result.path = <<Step(7, "C", 700, 50), Step(8, "B", 900, 50)>>

C5_Witness == ExampleCall("C") /\ result.kind = "ok" /\ Len(result.path) = 2

\* The forced team is available and the horizon is not empty and can be covered.
ForcedAvailable ==
    /\ IsPathCall /\ Forced /\ call.force_team \in Available
    /\ Horizon # {} /\ EnoughTeams

\* C6: when the forced team is available and has a record for current_week,
\* the first step of the returned path is (current_week, forced team) and no
\* other team is placed in current_week.
C6_ForcedTeamFirst ==
    (ForcedAvailable /\ HasRecord(call.force_team, call.current_week)) =>
        /\ result.kind = "ok"
        /\ result.path # <<>>
        /\ result.path[1].week = call.current_week
        /\ result.path[1].team = call.force_team
        /\ \A i \in Steps :
              result.path[i].week = call.current_week => result.path[i].team = call.force_team

\* C6's case: the forced team has win probability 0 in current_week, another
\* available team has a positive one, and no other team has a record for the
\* week after.
C6_Witness ==
    /\ ForcedAvailable /\ HasRecord(call.force_team, call.current_week)
    /\ Cardinality(Horizon) = 2
    /\ WinProbability(call.force_team, call.current_week) = 0
    /\ \E u \in Available : /\ HasRecord(u, call.current_week)
                            /\ WinProbability(u, call.current_week) > 0
    /\ \A u \in Available \ {call.force_team} : ~HasRecord(u, call.current_week + 1)
    /\ result.kind = "ok" /\ result.path # <<>>
    /\ result.path[1].team = call.force_team

\* C7: when the forced team is available but has no record for current_week,
\* optimize_path reports an error result with no path.
C7_ForcedWithoutRecordIsError ==
    (ForcedAvailable /\ ~HasRecord(call.force_team, call.current_week)) =>
        /\ result.kind = "error"
        /\ result.path = <<>>

\* C8: when force_team is not among the available teams and the horizon can
\* be covered, the call raises nothing, returns the error result with an empty
\* path and probability 0.0, and leaves the table, the used set and the list
\* of available teams as they were.
C8_UnknownOrUsedTeam ==
    [][ ( /\ call'.op = "optimize_path"
          /\ call'.force_team # NoForce
          /\ call'.force_team \notin Available'
          /\ EnoughTeams' ) =>
            /\ result'.kind = "error"
            /\ result'.path = <<>>
            /\ result'.probability = 0
            /\ data' = data
            /\ used_teams' = used_teams
            /\ available_teams' = available_teams
            /\ available_teams' = _get_available_teams(data', used_teams') ]_vars

\* C8's cases: the forced team is used, and the forced team is not in the table.
C8_Witness ==
    /\ IsPathCall /\ Forced /\ EnoughTeams /\ Horizon # {}
    /\ call.force_team \in used_teams
    /\ call.force_team \in {r.team : r \in data}
    /\ result.kind = "error"

\* A team playing in current_week is available: get_top_picks has a candidate.
HasCandidate == \E t \in Available : HasRecord(t, call.current_week)

\* C9 (as amended): with fewer available teams than weeks in the horizon,
\* optimize_path raises the insufficient-teams error whatever force_team is;
\* get_top_picks raises it when some available team has a record for
\* current_week, and otherwise returns an empty list.
C9_InsufficientTeams ==
    ~EnoughTeams =>
        /\ IsPathCall => result = Raised("ValueError")
        /\ (IsPicksCall /\ HasCandidate) => result = Raised("ValueError")
        /\ (IsPicksCall /\ ~HasCandidate) =>
              (result.kind = "picks" /\ result.picks = <<>>)

\* C9's case: too few teams and a forced team that is not available.
C9_Witness ==
    /\ ~EnoughTeams /\ IsPathCall /\ Forced
    /\ call.force_team \notin Available
    /\ result = Raised("ValueError")

\* C9 (as claimed): with fewer available teams than weeks, optimize_path
\* raises and get_top_picks returns no ranking because the failure propagates.
C9_Original ==
    ~EnoughTeams =>
        /\ IsPathCall => result = Raised("ValueError")
        /\ IsPicksCall => result = Raised("ValueError")

\* C10: the aggregate probability of every non-empty path optimize_path
\* returns equals the product of its steps' win probabilities within 1e-9
\* (both are exact multiples of 1e-6 here, so within 1e-9 means equal).
C10_ProbabilityIsProduct ==
    (IsPathCall /\ result.kind = "ok" /\ result.path # <<>>) =>
        result.probability = ProductOfSteps(result.path)

\* The entries of the list get_top_picks returned.
Picks == DOMAIN result.picks

\* The teams recommended by the entries of the list.
Listed == {result.picks[i].recommended_team : i \in Picks}

\* The unused teams with a record for current_week.
Eligible == {t \in Available : HasRecord(t, call.current_week)}

\* C11: the list get_top_picks returns is sorted in non-increasing order of
\* overall_win_probability: of two adjacent entries the earlier one has
\* overall_win_probability >= the later one.
C11_SortedByProbability ==
    (IsPicksCall /\ result.kind = "picks") =>
        \A i \in Picks :
            (i + 1) \in Picks =>
                result.picks[i].overall_win_probability
                    >= result.picks[i + 1].overall_win_probability

\* C11's case: two entries with different probabilities, the better one for
\* the team that was evaluated later.
C11_Witness ==
    /\ IsPicksCall /\ result.kind = "picks" /\ Len(result.picks) = 2
    /\ result.picks[1].overall_win_probability > result.picks[2].overall_win_probability
    /\ Rank(result.picks[1].recommended_team) > Rank(result.picks[2].recommended_team)

\* C12: the list get_top_picks returns has at most n_picks entries, no team
\* twice, and every recommended team is unused and has a record for
\* current_week (a team on a bye never appears, even if unused).
C12_PicksWellFormed ==
    (IsPicksCall /\ result.kind = "picks") =>
        /\ Len(result.picks) <= call.n_picks
        /\ \A i, j \in Picks :
              result.picks[i].recommended_team = result.picks[j].recommended_team => i = j
        /\ \A i \in Picks :
              /\ result.picks[i].recommended_team \notin used_teams
              /\ HasRecord(result.picks[i].recommended_team, call.current_week)

\* C12's case: an unused team is on a bye in current_week, a team is used,
\* and the list is full.
C12_Witness ==
    /\ IsPicksCall /\ result.kind = "picks" /\ EnoughTeams
    /\ \E t \in Available : ~HasRecord(t, call.current_week)
    /\ used_teams # {}
    /\ Len(result.picks) = call.n_picks

\* What optimize_path returns over the horizon of the call with team t forced.
ForcedResult(t) ==
    optimize_path(data, available_teams, tie, call.current_week, call.end_week, t)

\* The eligible teams whose forced solve gives a non-empty path.
WithPath == {t \in Eligible : ForcedResult(t).kind = "ok" /\ ForcedResult(t).path # <<>>}

\* C13: get_top_picks evaluates every unused team with a record for
\* current_week and returns the top n: every entry carries the forced solve of
\* its team, no eligible team left out of the list has a forced win-out
\* probability strictly greater than that of a listed team, and the list has
\* min(n_picks, number of eligible teams with a non-empty path) entries.
C13_TopOfAllEligible ==
    (IsPicksCall /\ result.kind = "picks") =>
        /\ Listed \subseteq WithPath
        /\ \A i \in Picks :
              LET res == ForcedResult(result.picks[i].recommended_team)
              IN  /\ result.picks[i].overall_win_probability = res.probability
                  /\ result.picks[i].full_path = res.path
        /\ \A t \in Eligible \ Listed, u \in Listed :
              ForcedResult(t).probability <= ForcedResult(u).probability
        /\ Len(result.picks) =
              (IF call.n_picks < Cardinality(WithPath) THEN call.n_picks
               ELSE Cardinality(WithPath))

\* C13's case: three eligible teams for a list of two, and the team left out
\* was evaluated first and is strictly worse than both listed teams.
C13_Witness ==
    /\ IsPicksCall /\ result.kind = "picks"
    /\ Cardinality(Eligible) = 3 /\ Len(result.picks) = 2
    /\ \E t \in Eligible \ Listed :
          \A u \in Listed :
              /\ Rank(t) < Rank(u)
              /\ ForcedResult(t).probability < ForcedResult(u).probability

\* The call can be solved: enough teams, and a forced team (if any) that is
\* available over a horizon that is not empty.
Solvable ==
    /\ IsPathCall /\ EnoughTeams
    /\ Forced => (call.force_team \in Available /\ Horizon # {})

\* The step is the forced pick of the call.
IsForcedPick(step) ==
    Forced /\ step.team = call.force_team /\ step.week = call.current_week

\* C18: a missing record for an (available team, week) pair never makes
\* optimize_path fail: the cell gets the sentinel cost, the solve completes,
\* and no step whose (team, week) pair has no record is in the returned path
\* unless it is the forced pick.
C18_MissingRecordIsNotAnError ==
    Solvable =>
        /\ \A t \in Available, w \in Horizon :
              ~HasRecord(t, w) => CellCost(data, t, w) = MISSING_COST
        /\ result.kind = "ok"
        /\ \A i \in Steps :
              HasRecord(result.path[i].team, result.path[i].week)
                  \/ IsForcedPick(result.path[i])

\* C18's case: over two weeks no available team has a record for one of them,
\* so the step decoded for that week is dropped and one step is returned.
C18_Witness ==
    /\ Solvable /\ ~Forced /\ Cardinality(Horizon) = 2
    /\ \E w \in Horizon : \A t \in Available : ~HasRecord(t, w)
    /\ result.kind = "ok" /\ Len(result.path) = 1

\* C19: in every result of optimize_path weeks_covered is the number of steps
\* of the path, it is smaller than the horizon length exactly when the step of
\* at least one week was dropped, and a path that covers every week of the
\* horizon has only steps backed by a record of the table.
C19_DegradedIsDistinguishable ==
    (IsPathCall /\ result.kind = "ok") =>
        /\ result.weeks_covered = Len(result.path)
        /\ (result.weeks_covered < Cardinality(Horizon))
              <=> (\E w \in Horizon : \A i \in Steps : result.path[i].week # w)
        /\ ({result.path[i].week : i \in Steps} = Horizon) =>
              \A i \in Steps : HasRecord(result.path[i].team, result.path[i].week)

\* C20: the optimizer core is a pure function of its inputs: no call changes
\* the probability table, used_teams or available_teams, and a call with the
\* arguments of the first call returns what the first call returned, whatever
\* calls were made in between.
C20_PureFunctionOfInputs ==
    [][ /\ data' = data
        /\ used_teams' = used_teams
        /\ available_teams' = available_teams
        /\ (call' = first'.call) => (result' = first'.result) ]_vars

\* C20's case: an unforced solve over two weeks was first, a different call
\* came in between, and the unforced solve is made again.
C20_Witness ==
    /\ first.call.op = "optimize_path" /\ first.call.force_team = NoForce
    /\ first.result.kind = "ok" /\ Len(first.result.path) = 2
    /\ first.between
    /\ call = first.call /\ result = first.result
    /\ \E t \in Available, w \in Horizon : ~HasRecord(t, w)

\* The list adjust_picks_for_pool_size returned.
IsAdjustCall == pool_call = "adjust_picks_for_pool_size"

Adjusted == pool_result.adjusted

AdjustedProbs == {Adjusted[i].overall_win_probability : i \in DOMAIN Adjusted}

AdjustedEvs == {Adjusted[i].path_ev : i \in DOMAIN Adjusted}

\* The three bands of pool sizes and their weights, in tenths.
SmallBand == pool_size <= 20

MiddleBand == pool_size \in 21..100

LargeBand == pool_size > 100

\* w_prob * overall_win_probability + w_ev * path_ev, in 1e-7.
Weighted(w_prob, w_ev, e) ==
    w_prob * e.overall_win_probability + w_ev * e.path_ev * 1000

\* C14: adjust_picks_for_pool_size computes composite_score = w_prob *
\* overall_win_probability + w_ev * path_ev with (0.8, 0.2) for pool_size <= 20,
\* (0.6, 0.4) for 21..100 and (0.4, 0.6) for pool_size > 100; every positive
\* pool size is in exactly one band.
C14_WeightsByBand ==
    IsAdjustCall =>
        /\ Cardinality({b \in {"small", "middle", "large"} :
                           \/ (b = "small" /\ SmallBand)
                           \/ (b = "middle" /\ MiddleBand)
                           \/ (b = "large" /\ LargeBand)}) = 1
        /\ \A i \in DOMAIN Adjusted :
              /\ SmallBand => Adjusted[i].composite_score = Weighted(8, 2, Adjusted[i])
              /\ MiddleBand => Adjusted[i].composite_score = Weighted(6, 4, Adjusted[i])
              /\ LargeBand => Adjusted[i].composite_score = Weighted(4, 6, Adjusted[i])

\* C14's case: a pool size on a boundary of a band, and a pick for which the
\* three pairs of weights give three different scores.
C14_Witness ==
    /\ IsAdjustCall /\ pool_size \in {20, 21, 100, 101}
    /\ \E i \in DOMAIN Adjusted :
          /\ Weighted(8, 2, Adjusted[i]) # Weighted(6, 4, Adjusted[i])
          /\ Weighted(6, 4, Adjusted[i]) # Weighted(4, 6, Adjusted[i])

\* C15: for a fixed pool size the composite score is monotone non-decreasing
\* in each argument: with path_ev fixed a larger overall_win_probability never
\* gives a smaller score, and with overall_win_probability fixed a larger
\* path_ev never gives a smaller score.
C15_ScoreMonotone ==
    IsAdjustCall =>
        /\ \A i \in DOMAIN Adjusted :
              Adjusted[i].composite_score =
                  composite_score(pool_size, Adjusted[i].overall_win_probability,
                                  Adjusted[i].path_ev)
        /\ \A p1, p2 \in AdjustedProbs, e \in AdjustedEvs :
              p1 <= p2 => composite_score(pool_size, p1, e)
                              <= composite_score(pool_size, p2, e)
        /\ \A p \in AdjustedProbs, e1, e2 \in AdjustedEvs :
              e1 <= e2 => composite_score(pool_size, p, e1)
                              <= composite_score(pool_size, p, e2)

\* C15's case: two picks of the list have the same path_ev and different
\* win-out probabilities, two have the same win-out probability and different
\* path_ev.
C15_Witness ==
    /\ IsAdjustCall
    /\ \E i, j \in DOMAIN Adjusted :
          /\ Adjusted[i].path_ev = Adjusted[j].path_ev
          /\ Adjusted[i].overall_win_probability < Adjusted[j].overall_win_probability
          /\ Adjusted[i].composite_score < Adjusted[j].composite_score
    /\ \E i, j \in DOMAIN Adjusted :
          /\ Adjusted[i].overall_win_probability = Adjusted[j].overall_win_probability
          /\ Adjusted[i].path_ev < Adjusted[j].path_ev
          /\ Adjusted[i].composite_score < Adjusted[j].composite_score

\* C16: the list adjust_picks_for_pool_size returns is sorted in
\* non-increasing order of composite_score; this order, not the order of the
\* win-out probabilities of its input, is the order of the recommendations.
C16_SortedByScore ==
    IsAdjustCall =>
        /\ Len(Adjusted) = Len(top_picks)
        /\ \A i \in DOMAIN Adjusted :
              (i + 1) \in DOMAIN Adjusted =>
                  Adjusted[i].composite_score >= Adjusted[i + 1].composite_score

\* C16's case: the input is in strictly decreasing order of win-out
\* probability as get_top_picks gives it, and the pick returned first is not
\* the first of the input and has a smaller win-out probability than the
\* pick returned after it.
C16_Witness ==
    /\ IsAdjustCall /\ Len(Adjusted) >= 2
    /\ \A i \in DOMAIN top_picks :
          (i + 1) \in DOMAIN top_picks =>
              top_picks[i].overall_win_probability
                  > top_picks[i + 1].overall_win_probability
    /\ Adjusted[1].recommended_team # top_picks[1].recommended_team
    /\ Adjusted[1].overall_win_probability < Adjusted[2].overall_win_probability
    /\ Adjusted[1].composite_score > Adjusted[2].composite_score

\* The texts of get_strategy_recommendation, named by their first words.
StrategyTexts == {"Small pool", "Medium pool", "Large pool", "Very large pool"}

\* C17: get_strategy_recommendation is a total lookup on pool_size into four
\* bands: < 10 the small-pool text, 10..49 the medium-pool text, 50..199 the
\* large-pool text, >= 200 the very-large-pool text; every positive pool size
\* gets exactly one of the four texts, and the call changes no state.
C17_StrategyBands ==
    [][ pool_call' = "get_strategy_recommendation" =>
          /\ pool_result'.text \in StrategyTexts
          /\ pool_size < 10 => pool_result'.text = "Small pool"
          /\ (10 <= pool_size /\ pool_size < 50) => pool_result'.text = "Medium pool"
          /\ (50 <= pool_size /\ pool_size < 200) => pool_result'.text = "Large pool"
          /\ pool_size >= 200 => pool_result'.text = "Very large pool"
          /\ pool_size' = pool_size
          /\ top_picks' = top_picks ]_vars

\* C17's case: the strategy asked of a calculator whose pool size is the
\* lower boundary of a band.
C17_Witness ==
    /\ pool_call = "get_strategy_recommendation"
    /\ pool_size \in {10, 50, 200}
    /\ pool_result.text \in StrategyTexts

PickPct(t, w) == (CHOOSE r \in data : r.team = t /\ r.week = w).pick_pct

\* C24: in every entry get_top_picks returns, the first step of full_path is
\* the recommended team in current_week, and win_probability_this_week and
\* pick_percentage_this_week are the values of that team's record for
\* current_week.
C24_FirstStepIsThePick ==
    (IsPicksCall /\ result.kind = "picks") =>
        \A i \in Picks :
            LET e == result.picks[i]
            IN  /\ e.full_path # <<>>
                /\ e.full_path[1].team = e.recommended_team
                /\ e.full_path[1].week = call.current_week
                /\ HasRecord(e.recommended_team, call.current_week)
                /\ e.win_probability_this_week
                       = WinProbability(e.recommended_team, call.current_week)
                /\ e.pick_percentage_this_week
                       = PickPct(e.recommended_team, call.current_week)

\* C24's case: an entry whose path has two steps, the team of the second week
\* sorting (and so decoded) before the recommended team, with different
\* records in the two weeks.
C24_Witness ==
    /\ IsPicksCall /\ result.kind = "picks"
    /\ \E i \in Picks :
          LET e == result.picks[i]
          IN  /\ Len(e.full_path) = 2
              /\ Rank(e.full_path[2].team) < Rank(e.recommended_team)
              /\ e.full_path[2].win_probability # e.win_probability_this_week
              /\ e.full_path[2].pick_pct # e.pick_percentage_this_week

\* -log(max(win_probability, epsilon)) of a step, in units of 1e-5; a step
\* carrying the 1001.0 of a pinned cell without a record has -log(1001).
LogCost(step) ==
    IF step.win_probability > ONE_COST \div 100 THEN -690876
    ELSE NegLog(Max(step.win_probability, EPSILON))

RECURSIVE SumOfLogCosts(_, _)
SumOfLogCosts(path, k) ==
    IF k = 0 THEN 0 ELSE SumOfLogCosts(path, k - 1) + LogCost(path[k])

\* C26: in every result of optimize_path, forced or unforced, total_cost is
\* the sum of -log(max(win_probability, epsilon)) over the included steps.
C26_TotalCostIsSumOfLogCosts ==
    (IsPathCall /\ result.kind = "ok") =>
        result.total_cost = SumOfLogCosts(result.path, Len(result.path))

\* The unforced half of C26, which the code satisfies.
C26_UnforcedTotalCost ==
    (IsPathCall /\ ~Forced /\ result.kind = "ok") =>
        result.total_cost = SumOfLogCosts(result.path, Len(result.path))

\* The weeks of the steps of a path.
WeeksOf(path) == {path[k].week : k \in DOMAIN path}

\* C25: every candidate get_top_picks returns has one step for each week
\* from current_week to end_week, and its overall_win_probability is the
\* product over all of those weeks.
C25_RankedOverAllWeeks ==
    (IsPicksCall /\ result.kind = "picks") =>
        \A i \in Picks :
            /\ Len(result.picks[i].full_path) = Cardinality(Horizon)
            /\ WeeksOf(result.picks[i].full_path) = Horizon
            /\ result.picks[i].overall_win_probability
                   = ProductOfSteps(result.picks[i].full_path)

\* The ranking C25 excludes: a candidate whose path leaves a week of the
\* horizon out is ranked above a candidate whose path covers every week.
C25_ShorterPathRankedFirst ==
    /\ IsPicksCall /\ result.kind = "picks"
    /\ \E i, j \in Picks :
          /\ i < j
          /\ WeeksOf(result.picks[i].full_path) # Horizon
          /\ WeeksOf(result.picks[j].full_path) = Horizon
          /\ result.picks[i].overall_win_probability
                 > result.picks[j].overall_win_probability

\* The weeks of the horizon after current_week.
LaterWeeks == Horizon \ {call.current_week}

\* The assignments of distinct available teams other than the forced team to
\* the weeks after current_week: the residual problem.
ResidualAssignments ==
    {g \in [LaterWeeks -> Available \ {call.force_team}] :
        \A v, w \in LaterWeeks : g[v] = g[w] => v = w}

\* The product of an assignment's win probabilities over at most two weeks,
\* exact, in units of 1e-3 per factor.
RECURSIVE ExactProductOver(_, _)
ExactProductOver(g, weeks) ==
    IF weeks = {} THEN 1
    ELSE LET w == CHOOSE x \in weeks : TRUE
         IN  ExactProductOver(g, weeks \ {w}) * WinProbability(g[w], w)

\* The total -log cost of an assignment, in units of 1e-5.
RECURSIVE CostOver(_, _)
CostOver(g, weeks) ==
    IF weeks = {} THEN 0
    ELSE LET w == CHOOSE x \in weeks : TRUE
         IN  CostOver(g, weeks \ {w}) + NegLog(Max(WinProbability(g[w], w), EPSILON))

\* The steps of the returned path for the weeks after current_week, as an
\* assignment of teams to those weeks.
LaterSteps ==
    [w \in WeeksOf(result.path) \ {call.current_week} |->
        result.path[CHOOSE k \in Steps : result.path[k].week = w].team]

\* The forced team is available with a record for current_week, the table is
\* complete, and the horizon has at most two weeks after current_week.
PinnedCall ==
    /\ ForcedAvailable /\ CompleteTable
    /\ HasRecord(call.force_team, call.current_week)
    /\ Cardinality(LaterWeeks) <= 2

\* C23: for a complete table and an available forced team with a record for
\* current_week, the steps for the weeks after current_week are a
\* maximum-product assignment of the other available teams to those weeks.
C23_PinAndReduce ==
    PinnedCall =>
        /\ result.kind = "ok"
        /\ DOMAIN LaterSteps = LaterWeeks
        /\ LaterSteps \in ResidualAssignments
        /\ \A g \in ResidualAssignments :
              ExactProductOver(g, LaterWeeks) <= ExactProductOver(LaterSteps, LaterWeeks)

\* What the code does give: the later steps attain the least total cost of
\* the residual problem, the cost of a step being -log(max(p, epsilon)).
C23_SameCostAsResidual ==
    PinnedCall =>
        /\ result.kind = "ok"
        /\ DOMAIN LaterSteps = LaterWeeks
        /\ LaterSteps \in ResidualAssignments
        /\ \A g \in ResidualAssignments :
              CostOver(LaterSteps, LaterWeeks) <= CostOver(g, LaterWeeks)

\* The residual problem has two weeks and more than one assignment.
C23_TwoResidualWeeks ==
    /\ PinnedCall /\ result.kind = "ok"
    /\ Cardinality(LaterWeeks) = 2
    /\ Cardinality(ResidualAssignments) > 1

\* The estimated remaining pool size of calculate_path_ev after k steps of
\* the path, for the calculator's pool size.
RemainingPool(path, k) == PathEvLoop(pool_size, path, k).remaining

\* C28: in calculate_path_ev the estimated remaining pool size is an integer
\* that starts at the initial pool size, never increases from one week to the
\* next and stays within [1, initial pool size]; estimated_final_pool_size
\* >= 1 and estimated_win_prob lies in (0, 1].
C28_RemainingPoolBounded ==
    IsAdjustCall =>
        \A i \in DOMAIN Adjusted :
            LET e    == Adjusted[i]
                path == e.full_path
            IN  /\ RemainingPool(path, 0) = pool_size
                /\ \A k \in 1..Len(path) :
                      /\ RemainingPool(path, k) \in 1..pool_size
                      /\ RemainingPool(path, k) <= RemainingPool(path, k - 1)
                /\ e.estimated_final_pool_size = RemainingPool(path, Len(path))
                /\ e.estimated_final_pool_size >= 1
                /\ e.estimated_win_probability > 0
                /\ e.estimated_win_probability <= ONE_PROB

\* C28's case: a two-step path over which a pool of more than one entry
\* shrinks to one entry in the first week and is held at one in the second.
C28_Witness ==
    /\ IsAdjustCall /\ pool_size > 1
    /\ \E i \in DOMAIN Adjusted :
          LET path == Adjusted[i].full_path
          IN  /\ Len(path) = 2
              /\ RemainingPool(path, 1) = 1
              /\ RemainingPool(path, 2) = 1
              /\ Adjusted[i].estimated_win_probability = ONE_PROB

\* The keys adjust_picks_for_pool_size adds to an entry.
AddedKeys ==
    {"path_ev", "estimated_win_probability", "estimated_final_pool_size",
     "composite_score"}

\* The place in the input list of the entry at place j of the output.
InputPlace(j) ==
    CHOOSE i \in DOMAIN top_picks :
        top_picks[i].recommended_team = Adjusted[j].recommended_team

\* The output is the input permuted, every entry keeping its fields and
\* gaining the added keys only, entries of equal score in input order.
PermutationOfInput ==
    /\ Len(Adjusted) = Len(top_picks)
    /\ \A i \in DOMAIN top_picks :
          Cardinality({j \in DOMAIN Adjusted :
                          Adjusted[j].recommended_team = top_picks[i].recommended_team}) = 1
    /\ \A j \in DOMAIN Adjusted :
          /\ DOMAIN Adjusted[j] = DOMAIN top_picks[InputPlace(j)] \cup AddedKeys
          /\ \A f \in DOMAIN top_picks[InputPlace(j)] :
                Adjusted[j][f] = top_picks[InputPlace(j)][f]
    /\ \A j, k \in DOMAIN Adjusted :
          (j < k /\ Adjusted[j].composite_score = Adjusted[k].composite_score)
              => InputPlace(j) < InputPlace(k)

\* C29: adjust_picks_for_pool_size returns a permutation of its input, every
\* entry keeping all its fields and gaining only path_ev,
\* estimated_win_probability, estimated_final_pool_size and composite_score;
\* the input list is not modified; entries of equal composite_score keep
\* their input order.
C29_PermutationOfInput ==
    [][IsAdjustCall' => (top_picks' = top_picks /\ PermutationOfInput')]_vars

\* C29's case: a list of three whose order the call changes, two entries of
\* equal score among them.
C29_Witness ==
    /\ IsAdjustCall /\ Len(Adjusted) = 3
    /\ Adjusted[1].recommended_team # top_picks[1].recommended_team
    /\ \E j \in 1..2 : Adjusted[j].composite_score = Adjusted[j + 1].composite_score

\* A set() that returned True stands (no set() or clear() followed it) and
\* the age of its entry has not reached the expiry.
StandingSet ==
    /\ last_set # NoSet
    /\ clock - last_set.time < CACHE_EXPIRY_HOURS

\* The last call on the cache was op on the key of the standing set().
LastCallOnSetKey(op) ==
    /\ cache_call.op = op
    /\ cache_call.key = last_set.key
    /\ cache_call.max_age_hours = 0

\* C21: after set(key, data) returns True, before the entry's age reaches
\* the expiry and with no set or clear in between, is_cache_valid(key) is
\* True and get(key) returns a value equal to data.
C21_RoundTrip ==
    StandingSet =>
        /\ is_cache_valid(cache_files, clock, last_set.key, 0)
        /\ get(cache_files, clock, last_set.key) = <<last_set.data>>
        /\ LastCallOnSetKey("is_cache_valid") => cache_result = <<TRUE>>
        /\ LastCallOnSetKey("get") => cache_result = <<last_set.data>>

\* C21's case: a get() of a key with a separator, made some time after the
\* set() but before the expiry, the entry written over that of another key.
C21_Witness ==
    /\ StandingSet /\ LastCallOnSetKey("get")
    /\ clock > last_set.time /\ last_set.time > 0
    /\ SafeKey(last_set.key) # last_set.key
    /\ \E key \in was_set : key # last_set.key /\ SafeKey(key) = SafeKey(last_set.key)
    /\ cache_result = <<last_set.data>>

\* C22: after clear(key) for a non-empty key, and for every key after
\* clear() without a key, is_cache_valid(key) is False and get(key) returns
\* None until the next successful set(key, ...); clearing a key that was
\* never set changes nothing and raises nothing.
C22_ClearedUntilSet ==
    [][/\ \A key \in cleared' :
             /\ ~is_cache_valid(cache_files', clock', key, 0)
             /\ get(cache_files', clock', key) = None
       /\ (/\ clock' = clock
           /\ cache_call'.op = "clear"
           /\ cache_call'.key \in Keys \ (was_set \cup {<<>>}))
              => (cache_files' = cache_files /\ cache_result' = None)]_vars

\* C30: for distinct keys k1 and k2, a set(k1, ...) or clear(k1) never
\* changes the result of get(k2) or is_cache_valid(k2), keys with '/' or
\* '\\' and the empty key included.
C30_KeysIsolated ==
    [][(/\ clock' = clock
        /\ cache_call'.op \in {"set", "clear"}
        /\ cache_call'.key \in Keys)
           => \A k2 \in Keys \ {cache_call'.key} :
                 /\ get(cache_files', clock', k2) = get(cache_files, clock, k2)
                 /\ \A max_age_hours \in MaxAges :
                       is_cache_valid(cache_files', clock', k2, max_age_hours)
                           = is_cache_valid(cache_files, clock, k2, max_age_hours)]_vars

====
